---- MODULE Spec2Model ----
(***************************************************************************)
(* A model of tetra3d's Grid / GridPoint / GridPath (grid.go).             *)
(*                                                                         *)
(* GridPoints and Grids are heap objects; they are modelled as numbers     *)
(* 1, 2, ... (Points, Grids), with 0 standing for Go's nil.  A Go slice    *)
(* is modelled as a TLA+ sequence; where the code mutates a slice while a  *)
(* range loop over it is running, the backing array of the slice is        *)
(* modelled as well (see RangeRemove and TransferLoop).                    *)
(*                                                                         *)
(* The scene graph (Node) and the Vector type are not part of grid.go.     *)
(* World positions are points on the X axis with integer coordinates, all  *)
(* grids have the identity transform (so LocalPosition = WorldPosition),   *)
(* and Vector.Equals is equality of coordinates.  A point keeps its world  *)
(* position when it is moved to another grid (Combine sets it back) and    *)
(* when it is unparented.  Grids hold GridPoints only.                     *)
(*                                                                         *)
(* grid.Combine(others...) treats its arguments one after the other, so    *)
(* the model has the call with one argument.                               *)
(***************************************************************************)
EXTENDS Integers, Sequences, FiniteSets, TLC

\* ---- bounds of the model ----
NumPoints == 4
NumSpare == 2
NumGrids == 3
MaxCoord == 2
MaxOps == 3

\* The GridPoint objects: NumPoints of them can exist before the first call,
\* the others are there for Clone to construct.
Points == 1..(NumPoints + NumSpare)
Initial == 1..NumPoints
Grids == 1..NumGrids
Coord == 0..MaxCoord
\* Go's nil, for *GridPoint and for a Node's parent.
nil == 0

VARIABLES
    Connections,  \* GridPoint.Connections of every point: a sequence of points
    prevLink,     \* GridPoint.prevLink of every point: a point or nil
    children,     \* the GridPoint children of every grid, in attachment order
    gridParent,   \* TRUE while the grid itself has a parent (the scene root)
    pos,          \* world position of every point
    made,         \* the points and grids constructed so far, how many more
                  \* points can be constructed, and the pairs <<clone, original>>
    held,         \* the GridPath the caller holds, and the slice Points() gave
    last,         \* the last call and what it returned
    nops          \* number of calls made

vars == <<Connections, prevLink, children, gridParent, pos, made, held, last, nops>>

\* ---- helpers on sequences ----
Range(s) == {s[i] : i \in 1..Len(s)}

Contains(s, x) == \E i \in 1..Len(s) : s[i] = x

Without(s, x) == SelectSeq(s, LAMBDA y : y # x)

NoDup(s) == \A i, j \in 1..Len(s) : i # j => s[i] # s[j]

\* ---- the scene graph, as far as grid.go uses it ----
\* point.parent: the grid the point is a child of, or nil.
Parent(ch, p) ==
    IF \E g \in Grids : Contains(ch[g], p)
    THEN CHOOSE g \in Grids : Contains(ch[g], p)
    ELSE nil

\* grid.Points(): the children of the grid that are GridPoints.
GridPoints(ch, g) == ch[g]

\* ---- GridPoint ----
IsConnected(C, point, other) == Contains(C[point], other)

\* IsOnSameGrid that asks only whether both points have a parent or both have none.
BothParented(ch, point, other) == (Parent(ch, point) = nil) = (Parent(ch, other) = nil)

IsOnSameGrid(ch, point, other) == Parent(ch, point) = Parent(ch, other)

\* Connect without the test for point == other.
ConnectNoSelfCheck(C, point, other) ==
    LET C1 == IF ~IsConnected(C, point, other)
              THEN [C EXCEPT ![point] = Append(@, other)]
              ELSE C
    IN IF ~IsConnected(C1, other, point)
       THEN [C1 EXCEPT ![other] = Append(@, point)]
       ELSE C1

\* Connect without the IsConnected tests.
ConnectUnchecked(C, point, other) ==
    IF point = other THEN C
    ELSE [C EXCEPT ![point] = Append(@, other), ![other] = Append(@, point)]

\* Connect that adds the connection to the receiver only.
ConnectOneSided(C, point, other) ==
    IF point = other THEN C
    ELSE IF ~IsConnected(C, point, other)
         THEN [C EXCEPT ![point] = Append(@, other)]
         ELSE C

Connect(C, point, other) ==
    IF point = other THEN C
    ELSE LET C1 == IF ~IsConnected(C, point, other)
                   THEN [C EXCEPT ![point] = Append(@, other)]
                   ELSE C
         IN IF ~IsConnected(C1, other, point)
            THEN [C1 EXCEPT ![other] = Append(@, point)]
            ELSE C1

\* The loop that takes out the first slot of the slice instead of slot i:
\*     s = append(s[:0], s[1:]...)
RECURSIVE RangeRemoveFirst(_, _, _, _)
RangeRemoveFirst(arr, len, i, x) ==
    IF i > Len(arr) THEN [arr |-> arr, len |-> len, fault |-> FALSE]
    ELSE IF arr[i] # x THEN RangeRemoveFirst(arr, len, i + 1, x)
    ELSE IF i > len THEN [arr |-> arr, len |-> len, fault |-> TRUE]
    ELSE LET shifted == [k \in 1..Len(arr) |->
                            IF k < len THEN arr[k + 1] ELSE arr[k]]
         IN RangeRemoveFirst(shifted, len - 1, i + 1, x)

\* One of the two loops of Disconnect:
\*     for i, c := range s { if c == x { s[i] = nil; s = append(s[:i], s[i+1:]...) } }
\* The range runs over the Len(arr) slots the slice had when the loop began,
\* reading the backing array arr, which the body shifts in place; len is the
\* current length of the slice.  s[i] = nil with i beyond the current length
\* is an index-out-of-range panic.
RECURSIVE RangeRemove(_, _, _, _)
RangeRemove(arr, len, i, x) ==
    IF i > Len(arr) THEN [arr |-> arr, len |-> len, fault |-> FALSE]
    ELSE IF arr[i] # x THEN RangeRemove(arr, len, i + 1, x)
    ELSE IF i > len THEN [arr |-> arr, len |-> len, fault |-> TRUE]
    ELSE LET shifted == [k \in 1..Len(arr) |->
                            IF k >= i /\ k < len THEN arr[k + 1]
                            ELSE IF k = i THEN nil
                            ELSE arr[k]]
         IN RangeRemove(shifted, len - 1, i + 1, x)

RemoveFrom(s, x) == RangeRemove(s, Len(s), 1, x)

Visible(r) == SubSeq(r.arr, 1, r.len)

\* Disconnect that removes the connection from the receiver only.
DisconnectOneSided(C, point, other) ==
    IF point = other THEN [C |-> C, fault |-> FALSE, arr |-> C[other]]
    ELSE LET r1 == RemoveFrom(C[point], other)
         IN [C |-> [C EXCEPT ![point] = Visible(r1)], fault |-> r1.fault,
             arr |-> C[other]]

\* Disconnect: the connection lists afterwards, whether it panicked, and the
\* backing array of other.Connections as the second loop left it (a range
\* loop of a caller that is still running over that array reads it).
Disconnect(C, point, other) ==
    IF point = other THEN [C |-> C, fault |-> FALSE, arr |-> C[other]]
    ELSE LET r1 == RemoveFrom(C[point], other)
             C1 == [C EXCEPT ![point] = Visible(r1)]
         IN IF r1.fault THEN [C |-> C1, fault |-> TRUE, arr |-> C1[other]]
            ELSE LET r2 == RemoveFrom(C1[other], point)
                 IN [C |-> [C1 EXCEPT ![other] = Visible(r2)], fault |-> r2.fault,
                     arr |-> r2.arr]

\* ---- GridPoint.Clone ----
\* Clone that also enters the new point in the lists of the neighbours.
GridPointCloneConnecting(C, point, newPoint) ==
    [q \in Points |->
        IF q = newPoint THEN C[point]
        ELSE IF Contains(C[point], q) THEN Append(C[q], newPoint)
        ELSE C[q]]

\* point.Clone(): newPoint.Connections is append([]*GridPoint{}, point.Connections...),
\* a new slice with the same points in it.
GridPointClone(C, point, newPoint) == [C EXCEPT ![newPoint] = C[point]]

\* ---- GridPoint.PathTo ----
\* The loop over next.Connections that sets c.prevLink of the checked
\* connections too (it enqueues the unchecked ones only).
RECURSIVE ExpandLinkingChecked(_, _, _, _, _, _)
ExpandLinkingChecked(conns, i, next, checked, pl, toCheck) ==
    IF i > Len(conns) THEN [pl |-> pl, toCheck |-> toCheck]
    ELSE IF conns[i] \in checked
         THEN ExpandLinkingChecked(conns, i + 1, next, checked,
                                   [pl EXCEPT ![conns[i]] = next], toCheck)
         ELSE ExpandLinkingChecked(conns, i + 1, next, checked,
                                   [pl EXCEPT ![conns[i]] = next], Append(toCheck, conns[i]))

\* for _, c := range next.Connections { if !checked[c] { c.prevLink = next; toCheck = append(toCheck, c) } }
RECURSIVE Expand(_, _, _, _, _, _)
Expand(conns, i, next, checked, pl, toCheck) ==
    IF i > Len(conns) THEN [pl |-> pl, toCheck |-> toCheck]
    ELSE IF conns[i] \in checked
         THEN Expand(conns, i + 1, next, checked, pl, toCheck)
         ELSE Expand(conns, i + 1, next, checked,
                     [pl EXCEPT ![conns[i]] = next], Append(toCheck, conns[i]))

\* The search loop.  expanded lists the points dequeued, in order (it is not
\* in the code; it records what the loop did).  toCheck[0] on an empty queue
\* is an index-out-of-range panic.
RECURSIVE SearchLoop(_, _, _, _, _, _, _)
SearchLoop(C, point, next, toCheck, checked, pl, expanded) ==
    IF next = point
    THEN [fault |-> FALSE, next |-> next, pl |-> pl, expanded |-> expanded]
    ELSE IF toCheck = <<>>
    THEN [fault |-> TRUE, next |-> next, pl |-> pl, expanded |-> expanded]
    ELSE LET n == Head(toCheck)
             chk == checked \cup {n}
             e == Expand(C[n], 1, n, chk, pl, Tail(toCheck))
         IN SearchLoop(C, point, n, e.toCheck, chk, e.pl, Append(expanded, n))

\* The walk that puts each point before those it has gathered.
RECURSIVE WalkLoopPrepending(_, _, _, _)
WalkLoopPrepending(pl, next, acc, fuel) ==
    IF pl[next] = nil THEN [hang |-> FALSE, nodes |-> acc, endAt |-> next]
    ELSE IF fuel = 0 THEN [hang |-> TRUE, nodes |-> acc, endAt |-> next]
    ELSE WalkLoopPrepending(pl, pl[next], <<next>> \o acc, fuel - 1)

\* for next.prevLink != nil { path = append(path, next); next = next.prevLink }
\* The points whose positions are appended; fuel bounds the number of rounds
\* (a walk that has not ended after as many rounds as there are points is in
\* a cycle).
RECURSIVE WalkLoop(_, _, _, _)
WalkLoop(pl, next, acc, fuel) ==
    IF pl[next] = nil THEN [hang |-> FALSE, nodes |-> acc, endAt |-> next]
    ELSE IF fuel = 0 THEN [hang |-> TRUE, nodes |-> acc, endAt |-> next]
    ELSE WalkLoop(pl, pl[next], Append(acc, next), fuel - 1)

\* PathTo that returns the empty path variable when point == other.
PathToSelfEmpty(ch, C, pl, point, other) ==
    IF ~IsOnSameGrid(ch, point, other)
    THEN [res |-> "nil", nodes |-> <<>>, pl |-> pl, expanded |-> <<>>]
    ELSE IF point = other
    THEN [res |-> "path", nodes |-> <<>>, pl |-> pl, expanded |-> <<>>]
    ELSE LET pl0 == [pl EXCEPT ![other] = nil, ![point] = nil]
             s == SearchLoop(C, point, nil, <<other>>, {}, pl0, <<>>)
         IN IF s.fault
            THEN [res |-> "panic", nodes |-> <<>>, pl |-> s.pl, expanded |-> s.expanded]
            ELSE LET w == WalkLoop(s.pl, s.next, <<>>, Cardinality(Points))
                 IN IF w.hang
                    THEN [res |-> "hang", nodes |-> w.nodes, pl |-> s.pl,
                          expanded |-> s.expanded]
                    ELSE [res |-> "path", nodes |-> Append(w.nodes, other),
                          pl |-> s.pl, expanded |-> s.expanded]

\* PathTo without other.prevLink = nil.
PathToKeepsDestinationLink(ch, C, pl, point, other) ==
    IF ~IsOnSameGrid(ch, point, other)
    THEN [res |-> "nil", nodes |-> <<>>, pl |-> pl, expanded |-> <<>>]
    ELSE IF point = other
    THEN [res |-> "path", nodes |-> <<point>>, pl |-> pl, expanded |-> <<>>]
    ELSE LET pl0 == [pl EXCEPT ![point] = nil]
             s == SearchLoop(C, point, nil, <<other>>, {}, pl0, <<>>)
         IN IF s.fault
            THEN [res |-> "panic", nodes |-> <<>>, pl |-> s.pl, expanded |-> s.expanded]
            ELSE LET w == WalkLoop(s.pl, s.next, <<>>, Cardinality(Points))
                 IN IF w.hang
                    THEN [res |-> "hang", nodes |-> w.nodes, pl |-> s.pl,
                          expanded |-> s.expanded]
                    ELSE [res |-> "path", nodes |-> Append(w.nodes, other),
                          pl |-> s.pl, expanded |-> s.expanded]

\* PathTo without other.prevLink = nil and point.prevLink = nil.
PathToNoReset(ch, C, pl, point, other) ==
    IF ~IsOnSameGrid(ch, point, other)
    THEN [res |-> "nil", nodes |-> <<>>, pl |-> pl, expanded |-> <<>>]
    ELSE IF point = other
    THEN [res |-> "path", nodes |-> <<point>>, pl |-> pl, expanded |-> <<>>]
    ELSE LET s == SearchLoop(C, point, nil, <<other>>, {}, pl, <<>>)
         IN IF s.fault
            THEN [res |-> "panic", nodes |-> <<>>, pl |-> s.pl, expanded |-> s.expanded]
            ELSE LET w == WalkLoop(s.pl, s.next, <<>>, Cardinality(Points))
                 IN IF w.hang
                    THEN [res |-> "hang", nodes |-> w.nodes, pl |-> s.pl,
                          expanded |-> s.expanded]
                    ELSE [res |-> "path", nodes |-> Append(w.nodes, other),
                          pl |-> s.pl, expanded |-> s.expanded]

\* PathTo: res is "nil" (no path returned), "path", "panic" or "hang";
\* nodes are the points whose world positions make up the path, pl is
\* prevLink afterwards and expanded the points the search dequeued.
PathTo(ch, C, pl, point, other) ==
    IF ~IsOnSameGrid(ch, point, other)
    THEN [res |-> "nil", nodes |-> <<>>, pl |-> pl, expanded |-> <<>>]
    ELSE IF point = other
    THEN [res |-> "path", nodes |-> <<point>>, pl |-> pl, expanded |-> <<>>]
    ELSE LET pl0 == [pl EXCEPT ![other] = nil, ![point] = nil]
             s == SearchLoop(C, point, nil, <<other>>, {}, pl0, <<>>)
         IN IF s.fault
            THEN [res |-> "panic", nodes |-> <<>>, pl |-> s.pl, expanded |-> s.expanded]
            ELSE LET w == WalkLoop(s.pl, s.next, <<>>, Cardinality(Points))
                 IN IF w.hang
                    THEN [res |-> "hang", nodes |-> w.nodes, pl |-> s.pl,
                          expanded |-> s.expanded]
                    ELSE [res |-> "path", nodes |-> Append(w.nodes, other),
                          pl |-> s.pl, expanded |-> s.expanded]

\* ---- GridPath ----
\* GridPath.GridPoints: the world positions of the points of the path.
PathPositions(P, nodes) == [i \in 1..Len(nodes) |-> P[nodes[i]]]

Abs(x) == IF x < 0 THEN -x ELSE x

\* GridPath.Distance, on positions that lie on the X axis.
RECURSIVE DistanceFrom(_, _)
DistanceFrom(gp, i) ==
    IF i > Len(gp) THEN 0 ELSE Abs(gp[i] - gp[i - 1]) + DistanceFrom(gp, i + 1)

Distance(gp) == IF Len(gp) <= 1 THEN 0 ELSE DistanceFrom(gp, 2)

\* ---- Node.RemoveChildren / GridPoint.Unparent ----
\* if point.parent != nil { point.parent.RemoveChildren(point) }
Unparent(ch, point) == [g \in Grids |-> Without(ch[g], point)]

\* ---- Grid.Combine ----
\* for _, connect := range p2.Connections { p.Connect(connect); connect.Disconnect(p2) }
\* B is the backing array of p2.Connections as it was when the range began
\* (Len(B) slots); connect.Disconnect(p2) shifts it in place, so the range
\* reads what the shifts left behind.  C[p2] is always the first Len(C[p2])
\* slots of B.  A nil slot would make p.Connect(nil) dereference nil.
\* (p.Connect(connect) appends to the lists of p and of connect, never to
\* that of p2: connect is p2 only if p2 lists itself, see NoDuplicateNoSelf.)
RECURSIVE TransferLoop(_, _, _, _, _)
TransferLoop(C, B, i, p, p2) ==
    IF i > Len(B) THEN [C |-> C, fault |-> FALSE]
    ELSE LET connect == B[i]
         IN IF connect = nil THEN [C |-> C, fault |-> TRUE]
            ELSE LET C1 == Connect(C, p, connect)
                     d == Disconnect(C1, connect, p2)
                     B1 == [k \in 1..Len(B) |->
                               IF k <= Len(d.arr) THEN d.arr[k] ELSE B[k]]
                 IN IF d.fault THEN [C |-> d.C, fault |-> TRUE]
                    ELSE TransferLoop(d.C, B1, i + 1, p, p2)

\* The inner loop without the comparison of the positions.
RECURSIVE InnerLoopAnyPosition(_, _, _, _, _)
InnerLoopAnyPosition(st, P, T, j, p) ==
    IF j > Len(T) \/ st.fault THEN st
    ELSE LET p2 == T[j]
         IN IF p = p2 THEN InnerLoopAnyPosition(st, P, T, j + 1, p)
            ELSE LET t == TransferLoop(st.C, st.C[p2], 1, p, p2)
                     st1 == [C |-> t.C,
                             ch |-> IF t.fault THEN st.ch ELSE Unparent(st.ch, p2),
                             fault |-> t.fault]
                 IN InnerLoopAnyPosition(st1, P, T, j + 1, p)

\* for _, p2 := range grid.Points() { if p == p2 { continue }; if same position { transfer; p2.Unparent() } }
\* T is the slice grid.Points() returned when this loop began.
RECURSIVE InnerLoop(_, _, _, _, _)
InnerLoop(st, P, T, j, p) ==
    IF j > Len(T) \/ st.fault THEN st
    ELSE LET p2 == T[j]
         IN IF p = p2 \/ P[p] # P[p2] THEN InnerLoop(st, P, T, j + 1, p)
            ELSE LET t == TransferLoop(st.C, st.C[p2], 1, p, p2)
                     st1 == [C |-> t.C,
                             ch |-> IF t.fault THEN st.ch ELSE Unparent(st.ch, p2),
                             fault |-> t.fault]
                 IN InnerLoop(st1, P, T, j + 1, p)

\* for _, p := range grid.Points() { for _, p2 := range grid.Points() { ... } }
\* S is the slice the outer grid.Points() returned; the inner one is called
\* anew for every p.
RECURSIVE OuterLoop(_, _, _, _, _)
OuterLoop(st, P, S, i, grid) ==
    IF i > Len(S) \/ st.fault THEN st
    ELSE OuterLoop(InnerLoop(st, P, GridPoints(st.ch, grid), 1, S[i]), P, S, i + 1, grid)

\* grid.Combine(other): connection lists, children and grid parents afterwards.
Combine(C, ch, gp, P, grid, other) ==
    IF grid = other THEN [C |-> C, ch |-> ch, gp |-> gp, fault |-> FALSE]
    ELSE LET ch1 == [ch EXCEPT ![grid] = ch[grid] \o ch[other], ![other] = <<>>]
             st == OuterLoop([C |-> C, ch |-> ch1, fault |-> FALSE], P,
                             GridPoints(ch1, grid), 1, grid)
         IN [C |-> st.C, ch |-> st.ch,
             gp |-> IF st.fault THEN gp ELSE [gp EXCEPT ![other] = FALSE],
             fault |-> st.fault]

\* ---- Grid.NearestGridPoint ----
SqDist(x, y) == (x - y) * (x - y)

\* Every order of the points of S.
RECURSIVE Orders(_)
Orders(S) ==
    IF S = {} THEN {<<>>}
    ELSE UNION {{<<x>> \o t : t \in Orders(S \ {x})} : x \in S}

\* sort.Slice(points, less) with less(i, j) = squared distance of points[i] to
\* position < that of points[j]: the orders of the points in which no point
\* comes before a nearer one.
SortedByDistance(P, pts, position) ==
    {s \in Orders(Range(pts)) :
        \A i, j \in 1..Len(s) :
            i < j => ~(SqDist(P[s[j]], position) < SqDist(P[s[i]], position))}

\* NearestGridPoint that returns the last point of the sorted slice.
NearestTakesLast(P, pts, position) ==
    {s[Len(s)] : s \in SortedByDistance(P, pts, position)}

\* The points sort.Slice may put first: the members of pts nearest to position
\* (the sort is not stable, so any of the nearest ones can come first).
Nearest(P, pts, position) == {s[1] : s \in SortedByDistance(P, pts, position)}

\* What NearestGridPoint returns for each position: one sort per argument.
NearChoices(P, pts) ==
    IF pts = <<>> THEN {[x \in Coord |-> nil]}
    ELSE {f \in [Coord -> Range(pts)] : \A x \in Coord : f[x] \in Nearest(P, pts, x)}

\* ---- the queries of a Grid ----
\* What a query can return: a panic, or a value.
Panics == {[fault |-> TRUE, value |-> nil]}

Returns(values) == {[fault |-> FALSE, value |-> v] : v \in values}

\* grid.NearestGridPoint(position): points[0], an index-out-of-range panic
\* when the grid has no points.
NearestGridPoint(P, pts, position) ==
    IF Len(pts) = 0 THEN Panics ELSE Returns(Nearest(P, pts, position))

\* grid.FurthestGridPoint(position): points[len(points)-1] of the same sort.
FurthestGridPoint(P, pts, position) ==
    IF Len(pts) = 0 THEN Panics
    ELSE Returns({s[Len(s)] : s \in SortedByDistance(P, pts, position)})

\* grid.RandomPoint(): gridPoints[rand.Intn(len(gridPoints))]; rand.Intn(0) panics.
RandomPoint(pts) ==
    IF Len(pts) = 0 THEN Panics ELSE Returns({pts[i + 1] : i \in 0..(Len(pts) - 1)})

\* FirstPoint without the test for an empty grid.
FirstPointUnchecked(pts) == IF Len(pts) = 0 THEN Panics ELSE Returns({pts[1]})

\* grid.FirstPoint(): nil if the grid has no GridPoints, else gridPoints[0].
FirstPoint(pts) == IF Len(pts) = 0 THEN Returns({nil}) ELSE Returns({pts[1]})

\* grid.LastPoint(): nil if the grid has no GridPoints, else gridPoints[len(gridPoints)-1].
LastPoint(pts) == IF Len(pts) = 0 THEN Returns({nil}) ELSE Returns({pts[Len(pts)]})

\* math.MaxFloat64: above every squared distance between two positions.
MaxFloat64 == (MaxCoord + 1) * (MaxCoord + 1)

\* The loop of NearestPositionOnGrid over the connections of the nearest
\* point, on the X axis.  t = newPos.Dot(segment) / segment.Dot(segment) is
\* NaN for a segment of length 0 (0 / 0); NaN passes neither clamp, and the
\* distance computed from it is NaN, which is not < dist.  Otherwise t > 1
\* gives end, t < 0 gives start, and start + segment * t is the position
\* itself for t between 0 and 1.
RECURSIVE ProjectLoop(_, _, _, _, _, _, _)
ProjectLoop(P, conns, i, start, position, dist, endPos) ==
    IF i > Len(conns) THEN endPos
    ELSE LET end == P[conns[i]]
             segment == end - start
             dot == (position - start) * segment
             newPos == IF dot > segment * segment THEN end
                       ELSE IF dot < 0 THEN start
                       ELSE position
             nd == SqDist(newPos, position)
         IN IF segment # 0 /\ nd < dist
            THEN ProjectLoop(P, conns, i + 1, start, position, nd, newPos)
            ELSE ProjectLoop(P, conns, i + 1, start, position, dist, endPos)

\* grid.NearestPositionOnGrid(position): dist starts at MaxFloat64 and endPos
\* at position.
NearestPositionOnGrid(C, P, pts, position) ==
    IF Len(pts) = 0 THEN Panics
    ELSE Returns({ProjectLoop(P, C[nearestPoint], 1, P[nearestPoint], position,
                              MaxFloat64, position) :
                     nearestPoint \in Nearest(P, pts, position)})

\* ---- GridPath as the caller holds it ----
\* What the caller of PathTo holds: no path (nil), or a GridPath with its
\* GridPoints slice.  made keeps the positions as PathTo produced them; got is
\* the slice a call of Points() returned, and shared tells whether that slice
\* has the backing array of GridPoints.
NoGridPath ==
    [has |-> FALSE, GridPoints |-> <<>>, made |-> <<>>, hasGot |-> FALSE,
     got |-> <<>>, shared |-> FALSE]

\* path := &GridPath{GridPoints: []Vector{}}, filled by append.
NewGridPath(positions) ==
    [has |-> TRUE, GridPoints |-> positions, made |-> positions, hasGot |-> FALSE,
     got |-> <<>>, shared |-> FALSE]

\* Points() that hands out the GridPoints slice itself.
GridPathPointsShared(gp) == [points |-> gp.GridPoints, shared |-> TRUE]

\* gp.Points(): append(make([]Vector, 0, len(gp.GridPoints)), gp.GridPoints...),
\* a slice with an array of its own.
GridPathPoints(gp) == [points |-> gp.GridPoints, shared |-> FALSE]

\* ---- Grid.Clone ----
\* for _, connect := range c.Connections { end := newGrid.NearestGridPoint(...); start.Connect(end) }
RECURSIVE CloneConnect(_, _, _, _, _, _)
CloneConnect(C, P, near, start, conns, k) ==
    IF k > Len(conns) THEN C
    ELSE CloneConnect(Connect(C, start, near[P[conns[k]]]), P, near, start, conns, k + 1)

\* for _, c := range grid.Points() { start := newGrid.NearestGridPoint(c.LocalPosition()); ... }
\* orig are the connection lists of the points of the cloned grid, which the
\* loop reads; C holds the lists being built.
RECURSIVE CloneLoop(_, _, _, _, _, _)
CloneLoop(C, orig, P, near, pts, i) ==
    IF i > Len(pts) THEN C
    ELSE CloneLoop(CloneConnect(C, P, near, near[P[pts[i]]], orig[pts[i]], 1),
                   orig, P, near, pts, i + 1)

\* The connection lists after grid.Clone(): fresh are the new GridPoints, one
\* for each point of the grid and in the same order, all with empty lists.
CloneConnections(C, P, near, pts, fresh) ==
    CloneLoop([q \in Points |-> IF Contains(fresh, q) THEN <<>> ELSE C[q]],
              C, P, near, pts, 1)

\* ---- the calls ----
\* The record of a call: its name, receiver and argument, how it ended, what
\* it returned (the points of the path for PathTo, the one point or position
\* for a query), and the connection lists and children before the call.
Call(op, a, b, res, nodes, expanded) ==
    [op |-> op, a |-> a, b |-> b, res |-> res, nodes |-> nodes, expanded |-> expanded,
     preC |-> Connections, preCh |-> children]

NoCall ==
    [op |-> "none", a |-> nil, b |-> nil, res |-> "ok", nodes |-> <<>>, expanded |-> <<>>,
     preC |-> [p \in Points |-> <<>>], preCh |-> [g \in Grids |-> <<>>]]

\* The k lowest numbers of a set, in ascending order.
RECURSIVE Lowest(_, _)
Lowest(S, k) ==
    IF k = 0 \/ S = {} THEN <<>>
    ELSE LET m == CHOOSE x \in S : \A y \in S : x <= y
         IN <<m>> \o Lowest(S \ {m}, k - 1)

FirstHalf == NumPoints \div 2

\* NewGridPoint leaves every point at the origin.
AtOrigin == [p \in Points |-> 0]

\* The points set out one after the other on the sites 0..MaxCoord, over and over.
InRows == [p \in Points |-> (p - 1) % (MaxCoord + 1)]

\* After construction: two grids under the scene root; the first holds the
\* points 1..FirstHalf, the second either the other points or none (the other
\* points are then not constructed yet).  No point has a connection.
Init ==
    /\ Connections = [p \in Points |-> <<>>]
    /\ prevLink = [p \in Points |-> nil]
    /\ \E k \in {FirstHalf, NumPoints} :
          /\ made = [pts |-> 1..k, grids |-> {1, 2}, room |-> NumPoints - k,
                     src |-> {}]
          /\ children = [g \in Grids |->
                            IF g = 1 THEN Lowest(1..FirstHalf, FirstHalf)
                            ELSE IF g = 2 THEN Lowest((FirstHalf + 1)..k, NumPoints)
                            ELSE <<>>]
          /\ \E layout \in {AtOrigin, InRows} :
                pos = [p \in Points |-> IF p <= k THEN layout[p] ELSE 0]
    /\ gridParent = [g \in Grids |-> g \in {1, 2}]
    /\ held = NoGridPath
    /\ last = [NoCall EXCEPT !.preC = Connections, !.preCh = children]
    /\ nops = 0

DoConnect(a, b) ==
    /\ nops < MaxOps
    /\ Connections' = Connect(Connections, a, b)
    /\ last' = Call("Connect", a, b, "ok", <<>>, <<>>)
    /\ nops' = nops + 1
    /\ UNCHANGED <<prevLink, children, gridParent, pos, made, held>>

DoDisconnect(a, b) ==
    /\ nops < MaxOps
    /\ LET d == Disconnect(Connections, a, b)
       IN /\ Connections' = d.C
          /\ last' = Call("Disconnect", a, b, IF d.fault THEN "panic" ELSE "ok", <<>>, <<>>)
    /\ nops' = nops + 1
    /\ UNCHANGED <<prevLink, children, gridParent, pos, made, held>>

\* PathTo whose search takes the connections it has followed out of the list
\* of the destination.
DoPathToConsuming(a, b) ==
    /\ nops < MaxOps
    /\ LET r == PathTo(children, Connections, prevLink, a, b)
       IN /\ prevLink' = r.pl
          /\ held' = IF r.res = "path" THEN NewGridPath(PathPositions(pos, r.nodes))
                     ELSE NoGridPath
          /\ last' = Call("PathTo", a, b, r.res, r.nodes, r.expanded)
          /\ Connections' = IF r.expanded = <<>> THEN Connections
                            ELSE [Connections EXCEPT ![b] = <<>>]
    /\ nops' = nops + 1
    /\ UNCHANGED <<children, gridParent, pos, made>>

DoPathTo(a, b) ==
    /\ nops < MaxOps
    /\ LET r == PathTo(children, Connections, prevLink, a, b)
       IN /\ prevLink' = r.pl
          /\ held' = IF r.res = "path" THEN NewGridPath(PathPositions(pos, r.nodes))
                     ELSE NoGridPath
          /\ last' = Call("PathTo", a, b, r.res, r.nodes, r.expanded)
    /\ nops' = nops + 1
    /\ UNCHANGED <<Connections, children, gridParent, pos, made>>

\* Unparent that also takes the point out of every connection list.
DoUnparentDisconnecting(a) ==
    /\ nops < MaxOps
    /\ children' = Unparent(children, a)
    /\ Connections' = [q \in Points |-> IF q = a THEN <<>> ELSE Without(Connections[q], a)]
    /\ last' = Call("Unparent", a, nil, "ok", <<>>, <<>>)
    /\ nops' = nops + 1
    /\ UNCHANGED <<prevLink, gridParent, pos, made, held>>

\* point.Unparent()
DoUnparent(a) ==
    /\ nops < MaxOps
    /\ children' = Unparent(children, a)
    /\ last' = Call("Unparent", a, nil, "ok", <<>>, <<>>)
    /\ nops' = nops + 1
    /\ UNCHANGED <<Connections, prevLink, gridParent, pos, made, held>>

DoCombine(g, h) ==
    /\ nops < MaxOps
    /\ LET r == Combine(Connections, children, gridParent, pos, g, h)
       IN /\ Connections' = r.C
          /\ children' = r.ch
          /\ gridParent' = r.gp
          /\ last' = Call("Combine", g, h, IF r.fault THEN "panic" ELSE "ok", <<>>, <<>>)
    /\ nops' = nops + 1
    /\ UNCHANGED <<prevLink, pos, made, held>>

\* grid.Clone(): the new grid and its points take the lowest free numbers.
DoClone(g) ==
    /\ nops < MaxOps
    /\ made.grids # Grids
    /\ Len(children[g]) <= made.room
    /\ LET newGrid == CHOOSE x \in Grids \ made.grids : \A y \in Grids \ made.grids : x <= y
           pts == GridPoints(children, g)
           fresh == Lowest(Points \ made.pts, Len(pts))
           P == [q \in Points |->
                    IF \E i \in 1..Len(fresh) : fresh[i] = q
                    THEN pos[pts[CHOOSE i \in 1..Len(fresh) : fresh[i] = q]]
                    ELSE pos[q]]
       IN /\ \E near \in NearChoices(P, fresh) :
                Connections' = CloneConnections(Connections, P, near, pts, fresh)
          /\ pos' = P
          /\ children' = [children EXCEPT ![newGrid] = fresh]
          /\ made' = [pts |-> made.pts \cup Range(fresh),
                      grids |-> made.grids \cup {newGrid},
                      room |-> made.room - Len(fresh),
                      src |-> made.src \cup {<<fresh[i], pts[i]>> : i \in 1..Len(fresh)}]
          /\ last' = Call("Clone", g, newGrid, "ok", <<>>, <<>>)
    /\ nops' = nops + 1
    /\ UNCHANGED <<prevLink, gridParent, held>>

\* point.Clone(): the new point takes the lowest free number; it has the
\* position of point, no parent and no prevLink.
DoClonePoint(a) ==
    /\ nops < MaxOps
    /\ made.room >= 1
    /\ LET newPoint == CHOOSE x \in Points \ made.pts : \A y \in Points \ made.pts : x <= y
       IN /\ Connections' = GridPointClone(Connections, a, newPoint)
          /\ pos' = [pos EXCEPT ![newPoint] = pos[a]]
          /\ made' = [made EXCEPT !.pts = made.pts \cup {newPoint},
                                  !.room = made.room - 1,
                                  !.src = made.src \cup {<<newPoint, a>>}]
          /\ last' = Call("ClonePoint", a, newPoint, "ok", <<>>, <<>>)
    /\ nops' = nops + 1
    /\ UNCHANGED <<prevLink, children, gridParent, held>>

\* points := path.Points(), on the path the caller holds.
DoPoints ==
    /\ nops < MaxOps
    /\ held.has
    /\ LET r == GridPathPoints(held)
       IN held' = [held EXCEPT !.hasGot = TRUE, !.got = r.points, !.shared = r.shared]
    /\ last' = Call("Points", nil, nil, "ok", <<>>, <<>>)
    /\ nops' = nops + 1
    /\ UNCHANGED <<Connections, prevLink, children, gridParent, pos, made>>

\* points[i] = v by the caller, on the slice Points() returned: a slice that
\* has the array of GridPoints changes GridPoints with it.
DoWrite(i, v) ==
    /\ nops < MaxOps
    /\ held.hasGot
    /\ i \in 1..Len(held.got)
    /\ held' = [held EXCEPT !.got = [@ EXCEPT ![i] = v],
                            !.GridPoints = IF held.shared THEN [@ EXCEPT ![i] = v] ELSE @]
    /\ last' = Call("Write", i, v, "ok", <<>>, <<>>)
    /\ nops' = nops + 1
    /\ UNCHANGED <<Connections, prevLink, children, gridParent, pos, made>>

\* A query: it reads the grid and returns.
Query(op, g, position, outcomes) ==
    /\ nops < MaxOps
    /\ \E r \in outcomes :
          last' = Call(op, g, position, IF r.fault THEN "panic" ELSE "ok",
                       IF r.fault THEN <<>> ELSE <<r.value>>, <<>>)
    /\ nops' = nops + 1
    /\ UNCHANGED <<Connections, prevLink, children, gridParent, pos, made, held>>

\* NearestGridPoint that sorts the children of the grid themselves instead of
\* the slice Points() made.
DoNearestGridPointSortingChildren(g, position) ==
    /\ nops < MaxOps
    /\ IF Len(GridPoints(children, g)) = 0
       THEN /\ last' = Call("NearestGridPoint", g, position, "panic", <<>>, <<>>)
            /\ children' = children
       ELSE \E s \in SortedByDistance(pos, GridPoints(children, g), position) :
               /\ last' = Call("NearestGridPoint", g, position, "ok", <<s[1]>>, <<>>)
               /\ children' = [children EXCEPT ![g] = s]
    /\ nops' = nops + 1
    /\ UNCHANGED <<Connections, prevLink, gridParent, pos, made, held>>

DoNearestGridPoint(g, position) ==
    Query("NearestGridPoint", g, position,
          NearestGridPoint(pos, GridPoints(children, g), position))

DoFurthestGridPoint(g, position) ==
    Query("FurthestGridPoint", g, position,
          FurthestGridPoint(pos, GridPoints(children, g), position))

DoRandomPoint(g) ==
    Query("RandomPoint", g, nil, RandomPoint(GridPoints(children, g)))

DoFirstPoint(g) ==
    Query("FirstPoint", g, nil, FirstPoint(GridPoints(children, g)))

DoLastPoint(g) ==
    Query("LastPoint", g, nil, LastPoint(GridPoints(children, g)))

DoNearestPositionOnGrid(g, position) ==
    Query("NearestPositionOnGrid", g, position,
          NearestPositionOnGrid(Connections, pos, GridPoints(children, g), position))

Next ==
    \/ \E a, b \in made.pts : DoConnect(a, b)
    \/ \E a, b \in made.pts : DoDisconnect(a, b)
    \/ \E a, b \in made.pts : DoPathTo(a, b)
    \/ \E a \in made.pts : DoUnparent(a)
    \/ \E g, h \in made.grids : DoCombine(g, h)
    \/ \E g \in made.grids : DoClone(g)

Spec == Init /\ [][Next]_vars

\* ---- graphs that are already built ----
\* All pairs of points that can be connected.
Pairs == {e \in Initial \X Initial : e[1] < e[2]}

Neighbours(E, p) == {q \in Points : <<p, q>> \in E \/ <<q, p>> \in E}

Reverse(s) == [i \in 1..Len(s) |-> s[Len(s) + 1 - i]]

\* The connection lists after Connect has been called once for every pair of
\* E, the pairs taken in ascending (up) or in descending order.
Built(E, up) ==
    [p \in Points |->
        LET asc == Lowest(Neighbours(E, p), NumPoints)
        IN IF up THEN asc ELSE Reverse(asc)]

\* Two grids under the scene root, the first with the points 1..k and the
\* second with the other initial points, at the positions P, connected as in
\* E; calls more calls can be made.
BuiltStateWith(E, up, k, P, calls) ==
    /\ Connections = Built(E, up)
    /\ prevLink = [p \in Points |-> nil]
    /\ made = [pts |-> Initial, grids |-> {1, 2}, room |-> NumSpare,
               src |-> {}]
    /\ children = [g \in Grids |->
                      IF g = 1 THEN Lowest(1..k, NumPoints)
                      ELSE IF g = 2 THEN Lowest((k + 1)..NumPoints, NumPoints)
                      ELSE <<>>]
    /\ pos = [p \in Points |-> IF p \in Initial THEN P[p] ELSE 0]
    /\ gridParent = [g \in Grids |-> g \in {1, 2}]
    /\ held = NoGridPath
    /\ last = [NoCall EXCEPT !.preC = Connections, !.preCh = children]
    /\ nops = MaxOps - calls

BuiltState(E, up, k, P) == BuiltStateWith(E, up, k, P, 1)

\* PathTo on every graph of the points, built in either order, with the
\* points on one grid or split over two.
InitPath ==
    \E E \in SUBSET Pairs, up \in BOOLEAN, k \in FirstHalf..NumPoints :
        BuiltState(E, up, k, InRows)

NextPath == \E a, b \in made.pts : DoPathTo(a, b)

SpecPath == InitPath /\ [][NextPath]_vars

\* The points 1..k set out as in InRows, the others s sites further on.
Shifted(k, s) ==
    [p \in Points |-> IF p <= k THEN InRows[p] ELSE (InRows[p] + s) % (MaxCoord + 1)]

\* Combine on every graph of the points, the points split over two grids.
InitMerge ==
    \E E \in SUBSET Pairs, k \in 1..(NumPoints - 1), s \in Coord :
        BuiltState(E, TRUE, k, Shifted(k, s))

NextMerge == \E g, h \in made.grids : DoCombine(g, h)

SpecMerge == InitMerge /\ [][NextMerge]_vars

\* Connect, Disconnect and Combine, two calls, on every graph of the points,
\* with the points split over two grids that hold points at the same
\* position.
InitUnlink ==
    \E E \in SUBSET Pairs :
        BuiltStateWith(E, TRUE, FirstHalf, InRows, 2)

NextUnlink ==
    \/ \E a, b \in made.pts : DoConnect(a, b)
    \/ \E a, b \in made.pts : DoDisconnect(a, b)
    \/ \E g, h \in made.grids : DoCombine(g, h)

SpecUnlink == InitUnlink /\ [][NextUnlink]_vars

\* The queries on every graph of the points, the first k points on one grid
\* and the others on a second one; either grid can be empty.
InitQuery ==
    \E E \in SUBSET Pairs, k \in 0..NumPoints :
        BuiltState(E, TRUE, k, InRows)

NextQuery ==
    \/ \E g \in made.grids, position \in Coord : DoNearestGridPoint(g, position)
    \/ \E g \in made.grids, position \in Coord : DoFurthestGridPoint(g, position)
    \/ \E g \in made.grids : DoRandomPoint(g)
    \/ \E g \in made.grids, position \in Coord : DoNearestPositionOnGrid(g, position)
    \/ \E g \in made.grids : DoFirstPoint(g)
    \/ \E g \in made.grids : DoLastPoint(g)

SpecQuery == InitQuery /\ [][NextQuery]_vars

\* Grid.Clone on every graph of the points, the first k points on one grid and
\* the others on a second one.
InitClone ==
    \E E \in SUBSET Pairs, k \in 0..NumPoints :
        BuiltState(E, TRUE, k, InRows)

NextClone == \E g \in made.grids : DoClone(g)

SpecClone == InitClone /\ [][NextClone]_vars

\* GridPoint.Clone on every graph of the points, built in either order, and
\* then Connect and Disconnect called on the clones.
InitPointClone ==
    \E E \in SUBSET Pairs, up \in BOOLEAN :
        BuiltStateWith(E, up, NumPoints, InRows, 2)

Clones == {e[1] : e \in made.src}

NextPointClone ==
    \/ \E a \in made.pts : DoClonePoint(a)
    \/ \E a \in Clones, b \in made.pts : DoConnect(a, b)
    \/ \E a \in Clones, b \in made.pts : DoDisconnect(a, b)

SpecPointClone == InitPointClone /\ [][NextPointClone]_vars

\* The points 1..m connected in a line.
Line(m) == {e \in Pairs : e[1] <= m /\ e[2] = e[1] + 1 /\ e[2] <= m}

\* A path is taken on a line of points, and then the caller reads and
\* changes what Points() returns, and the points and grids are changed.
InitSnapshot ==
    \E m \in 1..NumPoints :
        BuiltStateWith(Line(m), TRUE, m, InRows, 3)

NextSnapshot ==
    \/ ~held.has /\ \E a, b \in made.pts : DoPathTo(a, b)
    \/ held.has /\ DoPoints
    \/ held.has /\ \E i \in 1..NumPoints, v \in Coord : DoWrite(i, v)
    \/ held.has /\ \E a, b \in made.pts : DoConnect(a, b)
    \/ held.has /\ \E a, b \in made.pts : DoDisconnect(a, b)
    \/ held.has /\ \E a \in made.pts : DoUnparent(a)
    \/ held.has /\ \E g, h \in made.grids : DoCombine(g, h)

SpecSnapshot == InitSnapshot /\ [][NextSnapshot]_vars

\* Two PathTo calls, one after the other, on every graph of the points.
InitPathAgain ==
    \E E \in SUBSET Pairs :
        BuiltStateWith(E, TRUE, NumPoints, InRows, 2)

SpecPathAgain == InitPathAgain /\ [][NextPath]_vars

\* ==== properties ====

\* C1: right after A.Connect(B) with A # B, A lists B and B lists A; right
\* after A.Disconnect(B) with A # B, neither lists the other.
ConnectivitySymmetry ==
    /\ (last.op = "Connect" /\ last.a # last.b) =>
          /\ IsConnected(Connections, last.a, last.b)
          /\ IsConnected(Connections, last.b, last.a)
    /\ (last.op = "Disconnect" /\ last.a # last.b) =>
          /\ ~IsConnected(Connections, last.a, last.b)
          /\ ~IsConnected(Connections, last.b, last.a)

\* A pair that was connected has just been disconnected.
DisconnectedAnEdge ==
    /\ last.op = "Disconnect"
    /\ last.a # last.b
    /\ IsConnected(last.preC, last.a, last.b)
    /\ IsConnected(last.preC, last.b, last.a)

\* C4: in every state reached from empty connection lists by Connect,
\* Disconnect, Combine and Clone, A lists B exactly if B lists A.
SymmetricConnections ==
    \A a, b \in Points :
        IsConnected(Connections, a, b) <=> IsConnected(Connections, b, a)

\* Combine has just moved connections from a duplicate to another point.
CombineMovedConnections ==
    /\ last.op = "Combine"
    /\ last.res = "ok"
    /\ Connections # last.preC

\* C5: in every such state no connection list holds a point twice, and none
\* holds its own point.
NoDuplicateNoSelf ==
    \A p \in Points : NoDup(Connections[p]) /\ ~Contains(Connections[p], p)

\* Clone has just built connections between the points of the new grid.
CloneBuiltConnections ==
    /\ last.op = "Clone"
    /\ \E p \in Range(children[last.b]) : Connections[p] # <<>>

\* C6: a second A.Connect(B), A.Disconnect(B) of points that are not
\* connected, A.Connect(A) and A.Disconnect(A) leave every connection list as
\* it was and do not panic.
IdempotentNoOps ==
    /\ (/\ last.op = "Connect"
        /\ \/ last.a = last.b
           \/ IsConnected(last.preC, last.a, last.b) /\ IsConnected(last.preC, last.b, last.a))
       => Connections = last.preC /\ last.res = "ok"
    /\ (/\ last.op = "Disconnect"
        /\ \/ last.a = last.b
           \/ ~IsConnected(last.preC, last.a, last.b) /\ ~IsConnected(last.preC, last.b, last.a))
       => Connections = last.preC /\ last.res = "ok"

\* Connect has just been called on two points that were connected already.
ConnectedTwice ==
    /\ last.op = "Connect"
    /\ last.a # last.b
    /\ IsConnected(last.preC, last.a, last.b)
    /\ IsConnected(last.preC, last.b, last.a)

\* C9: PathTo between points whose parents differ returns nil and does not
\* panic, connected or not.
NoPathAcrossGrids ==
    (last.op = "PathTo" /\ Parent(children, last.a) # Parent(children, last.b))
        => last.res = "nil" /\ last.nodes = <<>>

\* PathTo has just been called on two directly connected points of
\* different grids.
PathToAcrossGridsConnected ==
    /\ last.op = "PathTo"
    /\ Parent(children, last.a) # Parent(children, last.b)
    /\ IsConnected(Connections, last.a, last.b)

\* C10: A.PathTo(A) returns a path of exactly one position, A's world
\* position, and the Distance of that path is 0.
SelfPath ==
    (last.op = "PathTo" /\ last.a = last.b) =>
        /\ last.res = "path"
        /\ PathPositions(pos, last.nodes) = <<pos[last.a]>>
        /\ Distance(PathPositions(pos, last.nodes)) = 0

\* A.PathTo(A) has just been called on a point that has connections.
SelfPathWithConnections ==
    /\ last.op = "PathTo"
    /\ last.a = last.b
    /\ Connections[last.a] # <<>>

\* The least number of connections on a chain from some point of frontier to
\* target, counted from d; -1 if there is no chain.
RECURSIVE HopsFrom(_, _, _, _, _)
HopsFrom(C, frontier, seen, target, d) ==
    IF target \in frontier THEN d
    ELSE IF frontier = {} THEN -1
    ELSE LET nxt == (UNION {Range(C[x]) : x \in frontier}) \ seen
         IN HopsFrom(C, nxt, seen \cup nxt, target, d + 1)

Hops(C, a, b) == HopsFrom(C, {a}, {a}, b, 0)

\* C2: for points of one grid that some chain of connections joins, PathTo
\* returns a path with one position more than the least number of
\* connections on a chain between them.
FewestHops ==
    (/\ last.op = "PathTo"
     /\ IsOnSameGrid(children, last.a, last.b)
     /\ Hops(Connections, last.a, last.b) >= 0)
    => /\ last.res = "path"
       /\ Len(PathPositions(pos, last.nodes)) = Hops(Connections, last.a, last.b) + 1

\* C3: for points of one grid that no chain of connections joins, PathTo
\* ends without a path and without a panic.
UnreachableIsReported ==
    (/\ last.op = "PathTo"
     /\ IsOnSameGrid(children, last.a, last.b)
     /\ Hops(Connections, last.a, last.b) < 0)
    => last.res = "nil"

\* Before the last call no two points of grid g were at the same position.
ApartBefore(g) ==
    \A i, j \in 1..Len(last.preCh[g]) :
        i # j => pos[last.preCh[g][i]] # pos[last.preCh[g][j]]

\* The pairs of a point of g and a point of h that were at the same position.
Coincident(g, h) ==
    {e \in Range(last.preCh[g]) \X Range(last.preCh[h]) : pos[e[1]] = pos[e[2]]}

\* The last call was g.Combine(h) of two grids without coinciding points of
\* their own and with exactly one point of g at the position of a point of h.
CombinedOnePair ==
    /\ last.op = "Combine"
    /\ last.a # last.b
    /\ ApartBefore(last.a)
    /\ ApartBefore(last.b)
    /\ Cardinality(Coincident(last.a, last.b)) = 1

\* C7: after such a Combine, g has countA + countB - 1 points and exactly one
\* point of the coinciding pair is still a point of g.
MergeMemberCount ==
    CombinedOnePair =>
        /\ Len(children[last.a]) = Len(last.preCh[last.a]) + Len(last.preCh[last.b]) - 1
        /\ \A e \in Coincident(last.a, last.b) :
              Contains(children[last.a], e[1]) # Contains(children[last.a], e[2])

\* C8: after such a Combine, one point of the coinciding pair (the survivor)
\* is connected to every former neighbour of the other (the duplicate), no
\* point lists the duplicate, and the survivor's connections are those the
\* two points had before.
MergeTransfersConnections ==
    CombinedOnePair =>
        \A e \in Coincident(last.a, last.b) :
            \E survivor \in {e[1], e[2]} :
                LET duplicate == IF survivor = e[1] THEN e[2] ELSE e[1]
                    before == (Range(last.preC[e[1]]) \cup Range(last.preC[e[2]]))
                                  \ {e[1], e[2]}
                IN /\ \A n \in Range(last.preC[duplicate]) \ {survivor} :
                         /\ IsConnected(Connections, n, survivor)
                         /\ IsConnected(Connections, survivor, n)
                   /\ \A q \in Points : ~IsConnected(Connections, q, duplicate)
                   /\ Range(Connections[survivor]) = before

\* C11: a path that PathTo returns for two distinct points starts at the
\* position of the source and ends at that of the destination, holds the
\* destination once, and every two consecutive positions are those of two
\* points that list each other.
PathOrdered ==
    (last.op = "PathTo" /\ last.res = "path" /\ last.a # last.b) =>
        LET n == last.nodes
            gp == held.GridPoints
        IN /\ Len(n) >= 2
           /\ gp = PathPositions(pos, n)
           /\ n[1] = last.a /\ gp[1] = pos[last.a]
           /\ n[Len(n)] = last.b /\ gp[Len(gp)] = pos[last.b]
           /\ Cardinality({i \in 1..Len(n) : n[i] = last.b}) = 1
           /\ \A i \in 1..(Len(n) - 1) :
                 /\ IsConnected(Connections, n[i], n[i + 1])
                 /\ IsConnected(Connections, n[i + 1], n[i])

\* PathTo has returned a path over two connections or more.
PathOverTwoConnections ==
    /\ last.op = "PathTo"
    /\ last.res = "path"
    /\ Len(last.nodes) >= 3

\* C12: NearestGridPoint, FurthestGridPoint and RandomPoint on a grid without
\* points end with an outcome that says so, never with a panic.
EmptyGridIsReported ==
    (/\ last.op \in {"NearestGridPoint", "FurthestGridPoint", "RandomPoint"}
     /\ GridPoints(children, last.a) = <<>>)
    => last.res = "empty"

\* C14: on a grid with a point, NearestGridPoint returns a point of the grid,
\* and no point of the grid is nearer to the position.
NearestIsNearest ==
    (last.op = "NearestGridPoint" /\ GridPoints(children, last.a) # <<>>) =>
        /\ last.res = "ok"
        /\ Contains(GridPoints(children, last.a), last.nodes[1])
        /\ \A o \in Range(GridPoints(children, last.a)) :
              ~(SqDist(pos[o], last.b) < SqDist(pos[last.nodes[1]], last.b))

\* NearestGridPoint has returned a point of a grid that also has a point
\* further from the position.
NearestOfSeveral ==
    /\ last.op = "NearestGridPoint"
    /\ last.res = "ok"
    /\ \E o \in Range(GridPoints(children, last.a)) :
          SqDist(pos[o], last.b) > SqDist(pos[last.nodes[1]], last.b)

\* The position x is that of a point of grid g, or lies between a point of g
\* and a point connected to it.
OnGrid(g, x) ==
    \E p \in Range(GridPoints(children, g)) :
        \/ pos[p] = x
        \/ \E q \in Range(Connections[p]) :
              \/ pos[p] <= x /\ x <= pos[q]
              \/ pos[q] <= x /\ x <= pos[p]

\* C15: on a grid with a point, NearestPositionOnGrid returns a position on
\* the grid, whether the nearest point has connections or not.
NearestPositionIsOnGrid ==
    (last.op = "NearestPositionOnGrid" /\ GridPoints(children, last.a) # <<>>) =>
        /\ last.res = "ok"
        /\ OnGrid(last.a, last.nodes[1])

\* A point of g or h that, before the last call, was at the position of
\* another point of g or h.
IsDuplicate(p, g, h) ==
    \E q \in (Range(last.preCh[g]) \cup Range(last.preCh[h])) \ {p} : pos[q] = pos[p]

ClonedApart ==
    /\ last.op = "Clone"
    /\ ApartBefore(last.a)

\* C16: the clone of such a grid has as many points, at the same positions,
\* two of them connected exactly if the originals at their positions are;
\* the connections of its points lead to points of the clone only, and the
\* connection lists of all other points are as they were.
CloneKeepsShape ==
    ClonedApart =>
        LET orig == last.preCh[last.a]
            copy == GridPoints(children, last.b)
        IN /\ Len(copy) = Len(orig)
           /\ \A i \in 1..Len(orig) : pos[copy[i]] = pos[orig[i]]
           /\ \A i, j \in 1..Len(orig) :
                 IsConnected(Connections, copy[i], copy[j])
                    <=> IsConnected(Connections, orig[i], orig[j])
           /\ \A i \in 1..Len(copy) : Range(Connections[copy[i]]) \subseteq Range(copy)
           /\ \A q \in Points \ Range(copy) : Connections[q] = last.preC[q]

\* The last call was P.Clone(): the new point lists the points P listed, in
\* the same order, and every other list is as it was.
ClonedListIsCopy ==
    last.op = "ClonePoint" =>
        /\ Connections[last.b] = last.preC[last.a]
        /\ \A q \in Points \ {last.b} : Connections[q] = last.preC[q]

\* C17 as written: P.Clone() copies the list of P and changes no other list,
\* and no Connect or Disconnect called on the clone changes the list of P.
PointCloneNeverChangesOriginal ==
    /\ ClonedListIsCopy
    /\ \A e \in made.src :
          (last.op \in {"Connect", "Disconnect"} /\ last.a = e[1])
          => Connections[e[2]] = last.preC[e[2]]

\* C17: P.Clone() copies the list of P and changes no other list, and no
\* Connect or Disconnect called on the clone with a point other than P
\* changes the list of P.
PointCloneIsShallow ==
    /\ ClonedListIsCopy
    /\ \A e \in made.src :
          (last.op \in {"Connect", "Disconnect"} /\ last.a = e[1] /\ last.b # e[2])
          => Connections[e[2]] = last.preC[e[2]]

\* Disconnect has removed a neighbour from the list of a clone; the original
\* has two neighbours or more.
CloneLostNeighbour ==
    /\ last.op = "Disconnect"
    /\ \E e \in made.src :
          /\ last.a = e[1]
          /\ last.b # e[2]
          /\ Connections[e[1]] # last.preC[e[1]]
          /\ Len(Connections[e[2]]) >= 2

\* C18: what Points() returns equals, in content and order, the positions
\* PathTo produced; and the positions of the path stay those that PathTo
\* produced, whatever the caller writes into the returned slice and whatever
\* Connect, Disconnect, Unparent and Combine calls follow.
PathIsSnapshot ==
    /\ last.op = "Points" => held.got = held.made
    /\ held.has => held.GridPoints = held.made

\* The caller has changed a position in the slice Points() returned for a
\* path of two positions or more.
ReturnedSliceChanged ==
    /\ last.op = "Write"
    /\ Len(held.made) >= 2
    /\ held.got # held.made

\* C19: P.Unparent() leaves every connection list as it was; afterwards no
\* grid has P among its points, every other point is on the grid it was on,
\* and if P had no parent nothing has changed.
UnparentKeepsConnections ==
    last.op = "Unparent" =>
        /\ Connections = last.preC
        /\ \A g \in Grids :
              /\ ~Contains(GridPoints(children, g), last.a)
              /\ \A q \in Points \ {last.a} :
                    Contains(GridPoints(children, g), q) <=> Contains(last.preCh[g], q)
        /\ Parent(last.preCh, last.a) = nil => children = last.preCh

\* A point that was on a grid and has connections has been detached.
DetachedConnectedPoint ==
    /\ last.op = "Unparent"
    /\ Parent(last.preCh, last.a) # nil
    /\ Connections[last.a] # <<>>
    /\ \E q \in Points : IsConnected(Connections, q, last.a)

\* The points whose prevLink the last PathTo call could set: the neighbours of
\* the points it dequeued.
Linked == UNION {Range(Connections[x]) : x \in Range(last.expanded)}

\* C20: PathTo returns what it returns when no point has a prevLink, whatever
\* prevLinks earlier PathTo calls have left.
PathToIgnoresEarlierCalls ==
    last.op = "PathTo" =>
        LET fresh == PathTo(children, Connections, [p \in Points |-> nil], last.a, last.b)
        IN /\ last.res = fresh.res
           /\ last.nodes = fresh.nodes
           /\ last.res = "path" => held.GridPoints = PathPositions(pos, fresh.nodes)

\* PathTo has returned a path over a connection or more while a point that
\* this call did not link still has the prevLink of an earlier call.
PathWithStaleLinks ==
    /\ last.op = "PathTo"
    /\ last.res = "path"
    /\ Len(last.nodes) >= 2
    /\ \E p \in Points \ Linked : prevLink[p] # nil

\* The number of entries of all connection lists.
RECURSIVE Entries(_, _)
Entries(C, S) ==
    IF S = {} THEN 0
    ELSE LET p == CHOOSE x \in S : TRUE
         IN Len(C[p]) + Entries(C, S \ {p})

\* C21: every PathTo call ends, with a path or with a failure: the search
\* dequeues no more points than the destination and one for every entry of
\* a connection list, and the walk along the prevLinks does not run in a
\* cycle.
PathToTerminates ==
    last.op = "PathTo" =>
        /\ last.res \in {"nil", "path", "panic"}
        /\ Len(last.expanded) <= 1 + Entries(Connections, Points)

\* PathTo has returned a path on a graph with a cycle, after a search that
\* dequeued a point twice.
PathAfterDoubleDequeue ==
    /\ last.op = "PathTo"
    /\ last.res = "path"
    /\ ~NoDup(last.expanded)

\* C22: FirstPoint and LastPoint return nil on a grid without points and do
\* not panic; on a grid with points they return the first and the last of
\* Points(), the points of the grid in the order of their attachment.
FirstAndLastPoint ==
    LET pts == GridPoints(children, last.a)
    IN /\ last.op \in {"FirstPoint", "LastPoint"} =>
             /\ last.res = "ok"
             /\ pts = <<>> => last.nodes = <<nil>>
       /\ (last.op = "FirstPoint" /\ pts # <<>>) => last.nodes = <<pts[1]>>
       /\ (last.op = "LastPoint" /\ pts # <<>>) => last.nodes = <<pts[Len(pts)]>>

\* FirstPoint has been called on a grid without points.
FirstPointOfEmptyGrid ==
    /\ last.op = "FirstPoint"
    /\ GridPoints(children, last.a) = <<>>
    /\ last.res = "ok"

\* C23: when PathTo has found the source, the walk along the predecessor
\* links from the source ends at the destination and visits no point twice:
\* the returned path begins at the source, ends at the destination and
\* holds no point more than once.
WalkReachesDestination ==
    (last.op = "PathTo" /\ last.a # last.b /\ last.res \notin {"nil", "panic"}) =>
        LET w == WalkLoop(prevLink, last.a, <<>>, Cardinality(Points))
        IN /\ last.res = "path"
           /\ ~w.hang
           /\ w.endAt = last.b
           /\ last.nodes = Append(w.nodes, last.b)
           /\ Head(last.nodes) = last.a
           /\ NoDup(last.nodes)

\* PathTo has returned a path over three or more points, each of them with
\* two or more connections.
PathAmongCycles ==
    /\ last.op = "PathTo"
    /\ last.res = "path"
    /\ Len(last.nodes) >= 3
    /\ \A i \in 1..Len(last.nodes) : Len(Connections[last.nodes[i]]) >= 2

\* C24: the search of PathTo does not expand the neighbours of the source:
\* after a call that found the source, no point connected to the source has
\* the source as its predecessor.
SourceIsNotExpanded ==
    (last.op = "PathTo" /\ last.res = "path" /\ last.a # last.b) =>
        \A c \in Range(Connections[last.a]) : prevLink[c] # last.a

\* The point of the segment from s to e that is nearest to x: x projected on
\* the segment with the parameter clamped to [0, 1].
ClampedProjection(x, s, e) ==
    LET lo == IF s <= e THEN s ELSE e
        hi == IF s <= e THEN e ELSE s
    IN IF x < lo THEN lo ELSE IF x > hi THEN hi ELSE x

\* The connection lists with those of the points outside S emptied.
OnlyListsOf(C, S) == [q \in Points |-> IF q \in S THEN C[q] ELSE <<>>]

\* C25: NearestPositionOnGrid looks at the segments of the nearest point
\* only: when that point has a connection, the result is the clamped
\* projection of the position onto one of the segments from it to its
\* connections, one that is nearest to the position; the connections of the
\* other points do not change the result.
ProjectsOnSegmentsOfNearest ==
    LET pts == GridPoints(children, last.a)
        position == last.b
        near == Nearest(pos, pts, position)
    IN (last.op = "NearestPositionOnGrid" /\ pts # <<>>) =>
          /\ \E n \in near :
                /\ last.nodes[1] = ProjectLoop(pos, Connections[n], 1, pos[n], position,
                                               MaxFloat64, position)
                /\ Connections[n] # <<>> =>
                      LET proj == {ClampedProjection(position, pos[n], pos[c]) :
                                      c \in Range(Connections[n])}
                      IN /\ last.nodes[1] \in proj
                         /\ \A x \in proj :
                               SqDist(last.nodes[1], position) <= SqDist(x, position)
          /\ NearestPositionOnGrid(Connections, pos, pts, position)
                = NearestPositionOnGrid(OnlyListsOf(Connections, near), pos, pts, position)

\* C26: a PathTo call changes nothing but predecessor links: the connection
\* list and the parent of every point, the order of the points of every grid
\* and every position are after the call what they were before it, whether
\* it returned a path or nil.
PathToChangesOnlyLinks ==
    [][(last'.op = "PathTo" /\ nops' = nops + 1) =>
          /\ Connections' = Connections
          /\ children' = children
          /\ gridParent' = gridParent
          /\ pos' = pos
          /\ \A p \in Points : Parent(children', p) = Parent(children, p)]_vars

\* PathTo has returned a path and has set the predecessor link of a point
\* that is not on the path.
PathToSetLinks ==
    /\ last.op = "PathTo"
    /\ last.res = "path"
    /\ \E p \in Points : prevLink[p] # nil /\ ~Contains(last.nodes, p)

\* C27: every position in a path that source.PathTo(destination) returned is
\* the position of a point of the grid of source and destination, also when
\* points of that grid are connected to points that are detached or on
\* another grid.
PathStaysOnGrid ==
    (last.op = "PathTo" /\ last.res = "path" /\ Parent(children, last.a) # nil) =>
        \A i \in 1..Len(held.GridPoints) :
            \E p \in Range(GridPoints(children, Parent(children, last.a))) :
                pos[p] = held.GridPoints[i]

\* C28: A.Disconnect(B) on two connected points takes exactly one entry, B,
\* out of the list of A and exactly one entry, A, out of the list of B, and
\* keeps the order of the other entries; it leaves the list of every other
\* point as it was, and it does not panic in a state reached through Connect,
\* Disconnect and Combine, the Disconnect calls that Combine makes included.
DisconnectRemovesOnePair ==
    /\ last.op = "Combine" => last.res = "ok"
    /\ last.op = "Disconnect" =>
        /\ last.res = "ok"
        /\ \A q \in Points \ {last.a, last.b} : Connections[q] = last.preC[q]
        /\ (last.a # last.b /\ IsConnected(last.preC, last.a, last.b)
                            /\ IsConnected(last.preC, last.b, last.a)) =>
              /\ Connections[last.a] = Without(last.preC[last.a], last.b)
              /\ Len(Connections[last.a]) = Len(last.preC[last.a]) - 1
              /\ Connections[last.b] = Without(last.preC[last.b], last.a)
              /\ Len(Connections[last.b]) = Len(last.preC[last.b]) - 1

\* After a Combine that took a point off its grid, Disconnect has taken the
\* first entry out of a list of two or more.
DisconnectedAfterCombine ==
    /\ last.op = "Disconnect"
    /\ \E p \in Initial : Parent(children, p) = nil
    /\ Len(last.preC[last.a]) >= 2
    /\ last.preC[last.a][1] = last.b
    /\ IsConnected(last.preC, last.b, last.a)

\* C29: NearestGridPoint and FurthestGridPoint do not change the grid: after
\* the call Points() gives the same points in the same order and every
\* connection list is as before (the sort works on a slice of its own).
SortLeavesGridAlone ==
    last.op \in {"NearestGridPoint", "FurthestGridPoint"} =>
        /\ children = last.preCh
        /\ \A g \in Grids : GridPoints(children, g) = GridPoints(last.preCh, g)
        /\ Connections = last.preC

\* NearestGridPoint has returned a point of a grid whose points are not in
\* the order of their distance to the position.
NearestOfUnsortedGrid ==
    /\ last.op = "NearestGridPoint"
    /\ last.res = "ok"
    /\ GridPoints(children, last.a)
          \notin SortedByDistance(pos, GridPoints(children, last.a), last.b)

\* C30: two different points that both have no parent are not on the same
\* grid: IsOnSameGrid is false for them and PathTo returns no path.
ParentlessPointsShareNoGrid ==
    (/\ last.op = "PathTo"
     /\ last.a # last.b
     /\ Parent(children, last.a) = nil
     /\ Parent(children, last.b) = nil) =>
        /\ ~IsOnSameGrid(children, last.a, last.b)
        /\ last.res = "nil"

====
